---- MODULE Spec2Model ----
(***************************************************************************)
(* ProductCareHub: the in-memory entity store (server/storage.ts,          *)
(* MemStorage), the warranty computation that runs on it, and the routes   *)
(* of server/routes.ts that derive a warranty status from a stored         *)
(* product.                                                                *)
(*                                                                         *)
(* Modelling conventions                                                   *)
(*  - A JavaScript Date is a record [day, ms]: day is the number of whole  *)
(*    days since 1970-01-01 and ms the milliseconds within that day, so    *)
(*    getTime() = day * MsPerDay + ms.  The pair keeps every number within *)
(*    TLC's integers; all arithmetic on it is exact.  Local time is taken  *)
(*    to have a fixed offset (no daylight-saving transitions).             *)
(*  - randomUUID() is a counter: an identifier is never issued twice.      *)
(*    Identifier 0 is never issued; it stands for an arbitrary string a    *)
(*    caller may pass as a key.                                            *)
(*  - A Map is a function from its keys to its values.  A Map iterates in  *)
(*    insertion order; every insertion of a new key uses a fresh           *)
(*    identifier and a set() of an existing key keeps its position, so     *)
(*    insertion order is ascending key order.                              *)
(*  - null / undefined dates are NullDate; an absent hasExtension is       *)
(*    FALSE (it is only ever tested for truthiness).                       *)
(***************************************************************************)
EXTENDS Integers, Sequences, FiniteSets, TLC

VARIABLES
    brands,                  \* MemStorage.brands
    products,                \* MemStorage.products
    reviews,                 \* MemStorage.reviews
    supportRequests,         \* MemStorage.supportRequests
    serviceProviders,        \* MemStorage.serviceProviders
    serviceProviderReviews,  \* MemStorage.serviceProviderReviews
    favorites,               \* MemStorage.favorites
    notifications,           \* MemStorage.notifications
    clientProfile,           \* MemStorage.clientProfile
    jobs,                    \* the continuations of pending calls, in the order
                             \* the job queue will run them
    now,                     \* the wall clock read by new Date()
    nextId,                  \* the next identifier randomUUID() returns
    last                     \* the last call made and what it returned

vars == <<brands, products, reviews, supportRequests, serviceProviders,
          serviceProviderReviews, favorites, notifications, clientProfile, jobs,
          now, nextId, last>>

\* what only the notification, profile and stepwise calls change
sideVars == <<notifications, clientProfile, jobs>>

productVars == <<brands, products, reviews, supportRequests>>
providerVars == <<serviceProviders, serviceProviderReviews>>

-----------------------------------------------------------------------------
(* Bounds of the model *)

\* identifiers randomUUID() may issue after the seed, in the whole-store specification
MaxIds == 2
\* identifiers issued after the seed in the warranty specification
MaxWarrantyIds == 1
\* identifiers issued after the seed in the cascade specification
MaxCascadeIds == 3
\* identifiers issued after the seed in the provider specification
MaxProviderIds == 5
\* identifiers issued after the seed in the catalog specification
MaxCatalogIds == 3
\* identifiers issued after the seed in the favorites specification
MaxFavoriteIds == 4
\* identifiers issued after the seed in the request specification
MaxRequestIds == 3
\* identifiers issued in the analytics specification
MaxAnalyticsIds == 3
\* days the clock may advance in the analytics specification
MaxAnalyticsDays == 1
\* identifiers issued in the top-brands specification
MaxTopBrandIds == 6
\* identifiers issued in the review-routes specification
MaxRouteIds == 3
\* identifiers issued in the profile specification
MaxProfileIds == 3
\* identifiers issued in the specifications of calls run step by step
MaxStepwiseIds == 3
\* calls that may be pending at once
MaxJobs == 2
\* identifiers issued in the notification specification
MaxNotificationIds == 3
\* clock ticks of one millisecond in the whole-store specification
MaxTicks == 1
\* days the clock may advance in the warranty specification
MaxDays == 2

-----------------------------------------------------------------------------
(* Dates: ECMAScript's day and year arithmetic (ECMA-262, 21.4.1) *)

MsPerDay == 86400000

WarrantyYears == 3

NullDate == [day |-> -1, ms |-> 0]

IsLeapYear(y) == (y % 4 = 0) /\ ((y % 100 # 0) \/ (y % 400 = 0))

DaysInYear(y) == IF IsLeapYear(y) THEN 366 ELSE 365

\* day number of 1 January of year y
DayFromYear(y) ==
    365 * (y - 1970) + ((y - 1969) \div 4) - ((y - 1901) \div 100) + ((y - 1601) \div 400)

\* the year a day number falls in
YearFromDay(d) ==
    CHOOSE y \in (1970 + (d \div 366)) .. (1970 + (d \div 365)) :
        DayFromYear(y) <= d /\ d < DayFromYear(y + 1)

\* days before the first of month m (0 = January) in year y
DaysBeforeMonth(y, m) ==
    LET base == <<0, 31, 59, 90, 120, 151, 181, 212, 243, 273, 304, 334>>
    IN  base[m + 1] + (IF m >= 2 /\ IsLeapYear(y) THEN 1 ELSE 0)

\* month (0 = January) a day number falls in
MonthFromDay(d) ==
    LET y == YearFromDay(d)
        n == d - DayFromYear(y)
    IN  CHOOSE m \in 0..11 :
            /\ DaysBeforeMonth(y, m) <= n
            /\ (m = 11 \/ n < DaysBeforeMonth(y, m + 1))

\* day of the month (1..31) of a day number
DateFromDay(d) ==
    LET y == YearFromDay(d)
    IN  d - DayFromYear(y) - DaysBeforeMonth(y, MonthFromDay(d)) + 1

\* MakeDay(year, month, date): a date past the end of the month runs on into
\* the next month
MakeDay(y, m, dt) ==
    LET ym == y + (m \div 12)
        mn == m % 12
    IN  DayFromYear(ym) + DaysBeforeMonth(ym, mn) + dt - 1

\* a Date from calendar fields (month 1 = January)
DateOf(y, mo, dt, msOfDay) == [day |-> MakeDay(y, mo - 1, dt), ms |-> msOfDay]

GetFullYear(t) == YearFromDay(t.day)
GetMonth(t) == MonthFromDay(t.day)
GetDate(t) == DateFromDay(t.day)

\* Date.prototype.setFullYear(y): same month, date and time of day in year y
SetFullYear(t, y) == [day |-> MakeDay(y, GetMonth(t), GetDate(t)), ms |-> t.ms]

\* sign of a.getTime() - b.getTime()
CmpTime(a, b) == IF a.day # b.day THEN a.day - b.day ELSE a.ms - b.ms

\* t advanced by d milliseconds, 0 <= d <= MsPerDay
AddMs(t, d) ==
    IF t.ms + d >= MsPerDay
    THEN [day |-> t.day + 1, ms |-> t.ms + d - MsPerDay]
    ELSE [day |-> t.day, ms |-> t.ms + d]

-----------------------------------------------------------------------------
(* Values shared by the store *)

Undefined == [undefined |-> TRUE]

\* null
Null == [null |-> TRUE]

\* the 13 brands of seedBrands, in the order they are inserted
SeedBrandNames ==
    <<"Apple", "Samsung", "LG", "Sony", "Bosch", "Siemens", "Microsoft",
      "Dell", "HP", "Xiaomi", "Teka", "Ariston", "AEG">>

\* the collation order String.prototype.localeCompare puts the names in
Alphabet ==
    <<"AEG", "Apple", "Ariston", "Bosch", "Dell", "HP", "LG", "Microsoft",
      "Miele", "Samsung", "Siemens", "Sony", "Teka", "Xiaomi">>

NameRank(n) == CHOOSE i \in 1..Len(Alphabet) : Alphabet[i] = n

\* a.localeCompare(b)
LocaleCompare(a, b) == NameRank(a) - NameRank(b)

\* identifiers issued by the constructor's seed
SeedIds == 1..Len(SeedBrandNames)

\* identifiers issued after the seed
Issued == nextId - Len(SeedBrandNames) - 1

\* { ...rec, ...updates }
Merge(rec, updates) ==
    [f \in DOMAIN rec \cup DOMAIN updates |->
        IF f \in DOMAIN updates THEN updates[f] ELSE rec[f]]

\* a Map without the keys ks
Without(map, ks) == [k \in DOMAIN map \ ks |-> map[k]]

RECURSIVE KeySeq(_)
\* the keys of a Map in iteration order
KeySeq(S) ==
    IF S = {} THEN <<>>
    ELSE LET m == CHOOSE x \in S : \A y \in S : x <= y
         IN  <<m>> \o KeySeq(S \ {m})

\* Array.from(map.values())
Values(map) ==
    CHOOSE vs \in {[i \in 1..Len(ks) |-> map[ks[i]]] : ks \in {KeySeq(DOMAIN map)}} : TRUE

\* Array.prototype.filter
Filter(seq, Keep(_)) == SelectSeq(seq, Keep)

\* where a stable sort puts element i of s: after every element that compares
\* less, and after the equal ones that came before it
SortedPosition(s, i, Cmp(_, _)) ==
    Cardinality({j \in 1..Len(s) :
                    \/ Cmp(s[j], s[i]) < 0
                    \/ Cmp(s[j], s[i]) = 0 /\ j < i}) + 1

\* Array.prototype.sort(cmp): stable, ascending in cmp
\* (s and pos are bound to the values of seq and of its sorted positions,
\* which are then computed once)
SortBy(seq, Cmp(_, _)) ==
    LET Positions(s) == [i \in 1..Len(s) |-> SortedPosition(s, i, Cmp)]
        Placed(s, pos) == [r \in 1..Len(s) |-> s[CHOOSE i \in 1..Len(s) : pos[i] = r]]
    IN  CHOOSE out \in UNION {{Placed(s, pos) : pos \in {Positions(s)}} : s \in {seq}} : TRUE

-----------------------------------------------------------------------------
(* Reads of the store *)

\* getBrand(id)
GetBrand(id) == IF id \in DOMAIN brands THEN brands[id] ELSE Undefined

\* getAllBrands(): by name, ascending
GetAllBrands ==
    LET ByName(a, b) == LocaleCompare(a.name, b.name)
    IN  SortBy(Values(brands), ByName)

\* getProduct(id)
GetProduct(id) == IF id \in DOMAIN products THEN products[id] ELSE Undefined

\* getReview(id)
GetReview(id) == IF id \in DOMAIN reviews THEN reviews[id] ELSE Undefined

\* getSupportRequest(id)
GetSupportRequest(id) ==
    IF id \in DOMAIN supportRequests THEN supportRequests[id] ELSE Undefined

\* getServiceProvider(id)
GetServiceProvider(id) ==
    IF id \in DOMAIN serviceProviders THEN serviceProviders[id] ELSE Undefined

\* { ...product, brand }
WithBrand(product, brand) == Merge(product, [brand |-> brand])

\* getProductWithBrand(id)
GetProductWithBrand(id) ==
    IF id \notin DOMAIN products THEN Undefined
    ELSE IF GetBrand(products[id].brandId) = Undefined THEN Undefined
    ELSE WithBrand(products[id], GetBrand(products[id].brandId))

\* a slip ByPurchaseDateDesc could make: the operands the other way round
ByPurchaseDateAsc(a, b) == CmpTime(a.purchaseDate, b.purchaseDate)

\* the comparator of the product lists: purchaseDate, newest first
ByPurchaseDateDesc(a, b) == CmpTime(b.purchaseDate, a.purchaseDate)

\* the comparator of the review and request lists: createdAt, newest first
ByCreatedAtDesc(a, b) == CmpTime(b.createdAt, a.createdAt)

\* the comparator of the provider lists: averageRating, highest first
\* (averageRating || 0 is averageRating for a number)
ByAverageRatingDesc(a, b) == b.averageRating - a.averageRating

\* a slip GetAllProducts could make: the products whose brand lookup failed
\* stay in the list
GetAllProductsUnfiltered ==
    LET Joined(all) == [i \in 1..Len(all) |-> WithBrand(all[i], GetBrand(all[i].brandId))]
    IN  SortBy(Joined(Values(products)), ByPurchaseDateDesc)

\* getAllProducts(): the products whose brand resolves, each joined with it
GetAllProducts ==
    LET Joined(all) == [i \in 1..Len(all) |->
                           IF GetBrand(all[i].brandId) = Undefined THEN Undefined
                           ELSE WithBrand(all[i], GetBrand(all[i].brandId))]
        NotNull(p) == p # Undefined
    IN  SortBy(Filter(Joined(Values(products)), NotNull), ByPurchaseDateDesc)

\* getReviewsByProduct(productId)
GetReviewsByProduct(productId) ==
    LET Of(r) == r.productId = productId
    IN  SortBy(Filter(Values(reviews), Of), ByCreatedAtDesc)

\* getAllReviews()
GetAllReviews == SortBy(Values(reviews), ByCreatedAtDesc)

\* getSupportRequestsByProduct(productId)
GetSupportRequestsByProduct(productId) ==
    LET Of(r) == r.productId = productId
    IN  SortBy(Filter(Values(supportRequests), Of), ByCreatedAtDesc)

\* getAllSupportRequests()
GetAllSupportRequests == SortBy(Values(supportRequests), ByCreatedAtDesc)

\* getAllServiceProviders()
GetAllServiceProviders == SortBy(Values(serviceProviders), ByAverageRatingDesc)

\* getServiceProviderReviews(providerId)
GetServiceProviderReviews(providerId) ==
    LET Of(r) == r.providerId = providerId
    IN  SortBy(Filter(Values(serviceProviderReviews), Of), ByCreatedAtDesc)

\* reviews.reduce((acc, r) => acc + r.rating, 0)
SumRatings(seq) ==
    LET acc[i \in 0..Len(seq)] == IF i = 0 THEN 0 ELSE acc[i - 1] + seq[i].rating
    IN  acc[Len(seq)]

\* a slip RoundDiv could make: the mean truncated to an integer
TruncDiv(sum, n) == sum \div n

\* Math.round(sum / n): the nearest integer, a half rounded up
RoundDiv(sum, n) == (2 * sum + n) \div (2 * n)

\* Math.round(avg) of the reviews rs, where avg = getAverageRating: 0 if there
\* are none, their sum / their number otherwise
RoundedAverage(rs) == IF Len(rs) = 0 THEN 0 ELSE RoundDiv(SumRatings(rs), Len(rs))

\* Math.round(await this.getAverageRating(providerId))
RoundedAverageRating(providerId) ==
    CHOOSE avg \in {RoundedAverage(rs) : rs \in {GetServiceProviderReviews(providerId)}} : TRUE

\* the ids of the elements of a list
IdsOf(seq) == {seq[i].id : i \in 1..Len(seq)}

-----------------------------------------------------------------------------
(* The state after construction *)

\* the clock when the server starts: 2025-06-01 00:00:00.000
StartTime == DateOf(2025, 6, 1, 0)

Init ==
    /\ brands = [i \in SeedIds |-> [id |-> i, name |-> SeedBrandNames[i]]]
    /\ products = <<>>
    /\ reviews = <<>>
    /\ supportRequests = <<>>
    /\ serviceProviders = <<>>
    /\ serviceProviderReviews = <<>>
    /\ favorites = <<>>
    /\ notifications = <<>>
    /\ clientProfile = Null
    /\ jobs = <<>>
    /\ now = StartTime
    /\ nextId = Len(SeedBrandNames) + 1
    /\ last = [op |-> "constructor"]

-----------------------------------------------------------------------------
(* Brands and products *)

\* time passes: the clock advances by d milliseconds
Tick(d) ==
    /\ now' = AddMs(now, d)
    /\ UNCHANGED <<productVars, providerVars, nextId, last, favorites, sideVars>>

\* createBrand(insertBrand)
CreateBrand(name) ==
    LET brand == [id |-> nextId, name |-> name]
    IN  /\ brands' = (nextId :> brand) @@ brands
        /\ nextId' = nextId + 1
        /\ last' = [op |-> "createBrand", ret |-> brand]
        /\ UNCHANGED <<products, reviews, supportRequests, providerVars, now, favorites, sideVars>>

\* a slip DefaultExpiration could make: three years taken as 3 * 365 days
DefaultExpirationByDays(purchaseDate) ==
    [day |-> purchaseDate.day + WarrantyYears * 365, ms |-> purchaseDate.ms]

\* the expiration createProduct computes: setFullYear(getFullYear() + 3)
DefaultExpiration(purchaseDate) ==
    SetFullYear(purchaseDate, GetFullYear(purchaseDate) + WarrantyYears)

\* createProduct(insertProduct)
CreateProduct(input) ==
    LET product == Merge(input, [id |-> nextId,
                                 purchaseDate |-> input.purchaseDate,
                                 warrantyExpiration |-> DefaultExpiration(input.purchaseDate)])
    IN  /\ products' = (nextId :> product) @@ products
        /\ nextId' = nextId + 1
        /\ last' = [op |-> "createProduct", input |-> input, ret |-> product]
        /\ UNCHANGED <<brands, reviews, supportRequests, providerVars, now, favorites, sideVars>>

\* a slip UpdateProduct could make: the updates are stored under the id
\* whether or not a product is stored under it
UpdateProductUpsert(id, updates) ==
    LET product == IF id \in DOMAIN products THEN products[id] ELSE <<>>
        updated == Merge(product, updates)
    IN  /\ products' = (id :> updated) @@ products
        /\ last' = [op |-> "updateProduct", id |-> id, ret |-> updated]
        /\ UNCHANGED <<brands, reviews, supportRequests, providerVars, now, nextId, favorites, sideVars>>

\* updateProduct(id, updates)
UpdateProduct(id, updates) ==
    /\ IF id \notin DOMAIN products
       THEN /\ last' = [op |-> "updateProduct", id |-> id, ret |-> Undefined]
            /\ UNCHANGED products
       ELSE LET updated == Merge(products[id], updates)
            IN  /\ products' = [products EXCEPT ![id] = updated]
                /\ last' = [op |-> "updateProduct", id |-> id, ret |-> updated]
    /\ UNCHANGED <<brands, reviews, supportRequests, providerVars, now, nextId, favorites, sideVars>>

\* deleteProduct(id): the reviews and requests of the product are deleted
\* under their id fields, then the product under its key
DeleteProduct(id) ==
    /\ reviews' = Without(reviews, IdsOf(GetReviewsByProduct(id)))
    /\ supportRequests' = Without(supportRequests, IdsOf(GetSupportRequestsByProduct(id)))
    /\ products' = Without(products, {id})
    /\ last' = [op |-> "deleteProduct", id |-> id, ret |-> (id \in DOMAIN products)]
    /\ UNCHANGED <<brands, providerVars, now, nextId, favorites, sideVars>>

\* a slip Extended could make: the extension is recorded but the expiration
\* computed earlier is kept
ExtendedKeepsExpiration(product, extension) ==
    Merge(product, [hasExtension |-> TRUE,
                    extendedExpirationDate |-> extension.extendedExpirationDate])

\* the product addWarrantyExtension stores
Extended(product, extension) ==
    Merge(product, [hasExtension |-> TRUE,
                    extendedExpirationDate |-> extension.extendedExpirationDate,
                    warrantyExpiration |-> extension.extendedExpirationDate])

\* addWarrantyExtension(id, extension)
AddWarrantyExtension(id, extension) ==
    /\ IF id \notin DOMAIN products
       THEN /\ last' = [op |-> "addWarrantyExtension", id |-> id,
                        extension |-> extension, ret |-> Undefined]
            /\ UNCHANGED products
       ELSE LET updated == Extended(products[id], extension)
            IN  /\ products' = [products EXCEPT ![id] = updated]
                /\ last' = [op |-> "addWarrantyExtension", id |-> id,
                            extension |-> extension, before |-> products[id],
                            ret |-> updated]
    /\ UNCHANGED <<brands, reviews, supportRequests, providerVars, now, nextId, favorites, sideVars>>

\* Math.ceil(n / d) for d > 0
CeilDiv(n, d) == -((-n) \div d)

\* a slip DaysRemaining could make: Math.floor in place of Math.ceil
DaysRemainingFloor(warrantyExpiration, t) ==
    (warrantyExpiration.day - t.day) + ((warrantyExpiration.ms - t.ms) \div MsPerDay)

\* Math.ceil((warrantyExpiration.getTime() - t.getTime()) / (1000 * 60 * 60 * 24))
DaysRemaining(warrantyExpiration, t) ==
    (warrantyExpiration.day - t.day) + CeilDiv(warrantyExpiration.ms - t.ms, MsPerDay)

\* const isExpired = daysRemaining < 0
IsExpired(daysRemaining) == daysRemaining < 0

\* GET /api/products/:id/certificate/pdf: the status printed on the certificate
CertificatePdf(id) ==
    /\ IF GetProductWithBrand(id) = Undefined
       THEN last' = [op |-> "certificatePdf", id |-> id, status |-> 404]
       ELSE LET product == GetProductWithBrand(id)
                daysRemaining == DaysRemaining(product.warrantyExpiration, now)
            IN  last' = [op |-> "certificatePdf", id |-> id, status |-> 200,
                         warrantyExpiration |-> product.warrantyExpiration,
                         at |-> now,
                         daysRemaining |-> daysRemaining,
                         isExpired |-> IsExpired(daysRemaining)]
    /\ UNCHANGED <<productVars, providerVars, now, nextId, favorites, sideVars>>

-----------------------------------------------------------------------------
(* Reviews and support requests *)

\* createReview(insertReview)
CreateReview(input) ==
    LET review == Merge(input, [id |-> nextId, createdAt |-> now])
    IN  /\ reviews' = (nextId :> review) @@ reviews
        /\ nextId' = nextId + 1
        /\ last' = [op |-> "createReview", input |-> input, ret |-> review]
        /\ UNCHANGED <<brands, products, supportRequests, providerVars, now, favorites, sideVars>>

\* a slip CreateSupportRequest could make: the input is spread after the
\* defaults, so that it overrides them
CreateSupportRequestInputLast(input) ==
    LET request == Merge([id |-> nextId, status |-> "sent",
                          emailSentAt |-> now, createdAt |-> now], input)
    IN  /\ supportRequests' = (nextId :> request) @@ supportRequests
        /\ nextId' = nextId + 1
        /\ last' = [op |-> "createSupportRequest", input |-> input, ret |-> request]
        /\ UNCHANGED <<brands, products, reviews, providerVars, now, favorites, sideVars>>

\* createSupportRequest(insertRequest)
CreateSupportRequest(input) ==
    LET request == Merge(input, [id |-> nextId, status |-> "sent",
                                 emailSentAt |-> now, createdAt |-> now])
    IN  /\ supportRequests' = (nextId :> request) @@ supportRequests
        /\ nextId' = nextId + 1
        /\ last' = [op |-> "createSupportRequest", input |-> input, ret |-> request]
        /\ UNCHANGED <<brands, products, reviews, providerVars, now, favorites, sideVars>>

\* updateSupportRequest(id, updates)
UpdateSupportRequest(id, updates) ==
    /\ IF id \notin DOMAIN supportRequests
       THEN /\ last' = [op |-> "updateSupportRequest", id |-> id, ret |-> Undefined]
            /\ UNCHANGED supportRequests
       ELSE LET updated == Merge(supportRequests[id], updates)
            IN  /\ supportRequests' = [supportRequests EXCEPT ![id] = updated]
                /\ last' = [op |-> "updateSupportRequest", id |-> id, ret |-> updated]
    /\ UNCHANGED <<brands, products, reviews, providerVars, now, nextId, favorites, sideVars>>

-----------------------------------------------------------------------------
(* Service providers and their reviews *)

\* createServiceProvider(insertProvider)
CreateServiceProvider(input) ==
    LET provider == Merge(input, [id |-> nextId, averageRating |-> 0, createdAt |-> now])
    IN  /\ serviceProviders' = (nextId :> provider) @@ serviceProviders
        /\ nextId' = nextId + 1
        /\ last' = [op |-> "createServiceProvider", ret |-> provider]
        /\ UNCHANGED <<productVars, serviceProviderReviews, now, favorites, sideVars>>

\* updateServiceProvider(id, updates)
UpdateServiceProvider(id, updates) ==
    /\ IF id \notin DOMAIN serviceProviders
       THEN /\ last' = [op |-> "updateServiceProvider", id |-> id, ret |-> Undefined]
            /\ UNCHANGED serviceProviders
       ELSE LET updated == Merge(serviceProviders[id], updates)
            IN  /\ serviceProviders' = [serviceProviders EXCEPT ![id] = updated]
                /\ last' = [op |-> "updateServiceProvider", id |-> id, ret |-> updated]
    /\ UNCHANGED <<productVars, serviceProviderReviews, now, nextId, favorites, sideVars>>

\* a slip ReviewsToDelete could make: the filter compares the review's own id
ReviewsToDeleteById(id) ==
    LET Of(r) == r.id = id
    IN  IdsOf(Filter(Values(serviceProviderReviews), Of))

\* the reviews deleteServiceProvider removes: those of the provider
ReviewsToDelete(id) ==
    LET Of(r) == r.providerId = id
    IN  IdsOf(Filter(Values(serviceProviderReviews), Of))

\* deleteServiceProvider(id)
DeleteServiceProvider(id) ==
    /\ serviceProviderReviews' = Without(serviceProviderReviews, ReviewsToDelete(id))
    /\ serviceProviders' = Without(serviceProviders, {id})
    /\ last' = [op |-> "deleteServiceProvider", id |-> id,
                before |-> serviceProviderReviews,
                ret |-> (id \in DOMAIN serviceProviders)]
    /\ UNCHANGED <<productVars, now, nextId, favorites, sideVars>>

\* createServiceProviderReview(insertReview): the review is stored, then the
\* provider's averageRating is recomputed over its stored reviews
CreateServiceProviderReview(input) ==
    LET review == Merge(input, [id |-> nextId, createdAt |-> now])
        pid == input.providerId
    IN  /\ serviceProviderReviews' = (nextId :> review) @@ serviceProviderReviews
        /\ nextId' = nextId + 1
        /\ serviceProviders' =
              IF pid \notin DOMAIN serviceProviders THEN serviceProviders
              ELSE [serviceProviders EXCEPT ![pid] =
                       Merge(@, [averageRating |-> RoundedAverageRating(pid)'])]
        /\ last' = [op |-> "createServiceProviderReview", input |-> input, ret |-> review]
        /\ UNCHANGED <<productVars, now, favorites, sideVars>>

-----------------------------------------------------------------------------
(* Favorites *)

\* a slip Matches could make: the type is not compared
MatchesTargetOnly(f, type, targetId) == f.targetId = targetId

\* f => f.type === type && f.targetId === targetId
Matches(f, type, targetId) == f.type = type /\ f.targetId = targetId

\* isFavorite(type, targetId)
IsFavorite(type, targetId) ==
    \E k \in DOMAIN favorites : Matches(favorites[k], type, targetId)

\* toggleFavorite(type, targetId): the first matching record is deleted if
\* there is one, a new record is stored otherwise; last keeps the favorites
\* before the call and, after two toggles in a row, the call before this one
ToggleFavorite(type, targetId) ==
    LET exists == IsFavorite(type, targetId)
        found == {k \in DOMAIN favorites : Matches(favorites[k], type, targetId)}
        toDelete == CHOOSE k \in found : \A j \in found : k <= j
        favorite == [id |-> nextId, type |-> type, targetId |-> targetId, createdAt |-> now]
        prior == IF last.op = "toggleFavorite"
                 THEN [type |-> last.type, targetId |-> last.targetId, before |-> last.before]
                 ELSE Undefined
    IN  /\ IF exists
           THEN /\ favorites' = IF found = {} THEN favorites ELSE Without(favorites, {toDelete})
                /\ nextId' = nextId
           ELSE /\ favorites' = (nextId :> favorite) @@ favorites
                /\ nextId' = nextId + 1
        /\ last' = [op |-> "toggleFavorite", type |-> type, targetId |-> targetId,
                    before |-> favorites, prior |-> prior, ret |-> ~exists]
        /\ UNCHANGED <<productVars, providerVars, now, sideVars>>

-----------------------------------------------------------------------------
(* Analytics: GET /api/analytics on the server, and the query of the        *)
(* analytics page on the client, which computes its own figures from        *)
(* GET /api/products, /api/service-providers and /api/community/reviews.    *)
(* A rating with one decimal place is held in tenths (4.7 is 47), so that   *)
(* Math.round(mean * 10) / 10 is RoundDiv(10 * sum, n) tenths.              *)

\* the length of the top lists: slice(0, 5)
TopN == 5

\* Array.prototype.slice(0, n)
Take(seq, n) == SubSeq(seq, 1, IF Len(seq) < n THEN Len(seq) ELSE n)

\* Math.max(a, b)
Max(a, b) == IF a >= b THEN a ELSE b

\* the sum of a list of numbers: reduce((a, b) => a + b, 0)
Sum(seq) ==
    LET acc[i \in 0..Len(seq)] == IF i = 0 THEN 0 ELSE acc[i - 1] + seq[i]
    IN  acc[Len(seq)]

\* Object.keys of an object whose keys were set in the order of seq: the
\* distinct values of seq in the order of their first occurrence
FirstOccurrences(seq) ==
    LET firsts == {i \in 1..Len(seq) : \A j \in 1..(i - 1) : seq[j] # seq[i]}
    IN  CHOOSE out \in {[r \in 1..Len(idx) |-> seq[idx[r]]] : idx \in {KeySeq(firsts)}} : TRUE

\* a slip BrandCounts could make: the count is set when the entry is made and
\* never incremented
BrandCountsOnce(ps) ==
    LET keys == FirstOccurrences([i \in 1..Len(ps) |-> ps[i].brandId])
        First(b) == CHOOSE i \in 1..Len(ps) : ps[i].brandId = b
    IN  [r \in 1..Len(keys) |->
            [id |-> keys[r], name |-> ps[First(keys[r])].brand.name, count |-> 1]]

\* Object.values(brandCounts): one entry per brandId of the products ps, with
\* the brand name of the first product that has it and the number of products
\* that have it
BrandCounts(ps) ==
    LET keys == FirstOccurrences([i \in 1..Len(ps) |-> ps[i].brandId])
        First(b) == CHOOSE i \in 1..Len(ps) :
                        ps[i].brandId = b /\ \A j \in 1..(i - 1) : ps[j].brandId # b
    IN  [r \in 1..Len(keys) |->
            [id |-> keys[r],
             name |-> ps[First(keys[r])].brand.name,
             count |-> Cardinality({i \in 1..Len(ps) : ps[i].brandId = keys[r]})]]

\* (a, b) => b.count - a.count
ByCountDesc(a, b) == b.count - a.count

\* (a, b) => b.rating - a.rating
ByRatingDesc(a, b) == b.ratingTenths - a.ratingTenths

\* topBrands of GET /api/analytics
TopBrands(ps) == Take(SortBy(BrandCounts(ps), ByCountDesc), TopN)

\* topBrands of the analytics page: the same, count renamed productCount
PageTopBrands(ps) ==
    LET top == TopBrands(ps)
    IN  [i \in 1..Len(top) |->
            [id |-> top[i].id, name |-> top[i].name, productCount |-> top[i].count]]

\* topRatedProviders of GET /api/analytics: every provider, with its stored
\* averageRating and a reviewCount of 0
TopRatedProviders(providers) ==
    LET entries == [i \in 1..Len(providers) |->
                       [id |-> providers[i].id,
                        name |-> providers[i].name,
                        ratingTenths |-> 10 * providers[i].averageRating,
                        reviewCount |-> 0]]
    IN  Take(SortBy(entries, ByRatingDesc), TopN)

\* GET /api/community/reviews: the product reviews whose product resolves,
\* each joined with it
CommunityReviews ==
    LET Joined(all) == [i \in 1..Len(all) |->
                           IF GetProductWithBrand(all[i].productId) = Undefined
                           THEN Undefined
                           ELSE Merge(all[i], [product |-> GetProductWithBrand(all[i].productId)])]
        NotNull(r) == r # Undefined
    IN  Filter(Joined(GetAllReviews), NotNull)

\* if (r.providerId)
HasProviderId(r) == "providerId" \in DOMAIN r

\* the ratings of the reviews rs whose field is key, in the order of rs
RatingsFor(rs, field, key) ==
    LET Of(r) == field \in DOMAIN r /\ r[field] = key
        of == Filter(rs, Of)
    IN  [i \in 1..Len(of) |-> of[i].rating]

\* Object.values(providerRatings) of the analytics page: one entry per
\* provider, then one named "Unknown" per other providerId found in rs
ProviderRatings(providers, rs) ==
    LET withProvider == Filter(rs, HasProviderId)
        keys == FirstOccurrences([i \in 1..Len(providers) |-> providers[i].id]
                                 \o [i \in 1..Len(withProvider) |-> withProvider[i].providerId])
        Last(k) == CHOOSE i \in 1..Len(providers) :
                       providers[i].id = k /\ \A j \in (i + 1)..Len(providers) : providers[j].id # k
    IN  [r \in 1..Len(keys) |->
            [id |-> keys[r],
             name |-> IF \E i \in 1..Len(providers) : providers[i].id = keys[r]
                      THEN providers[Last(keys[r])].name
                      ELSE "Unknown",
             ratings |-> RatingsFor(rs, "providerId", keys[r])]]

\* Object.values(productRatings) of the analytics page: one entry per listed
\* product, with the ratings of the reviews of rs that name it
ProductRatings(ps, rs) ==
    LET keys == FirstOccurrences([i \in 1..Len(ps) |-> ps[i].id])
        Last(k) == CHOOSE i \in 1..Len(ps) :
                       ps[i].id = k /\ \A j \in (i + 1)..Len(ps) : ps[j].id # k
    IN  [r \in 1..Len(keys) |->
            [id |-> keys[r],
             name |-> <<ps[Last(keys[r])].name, ps[Last(keys[r])].brand.name>>,
             ratings |-> RatingsFor(rs, "productId", keys[r])]]

\* the rated entries of the analytics page: those with a rating, each with
\* Math.round(mean * 10) / 10 and the number of ratings, by rating, the first 5
TopRated(entries) ==
    LET Rated(e) == Len(e.ratings) > 0
        rated == Filter(entries, Rated)
        mapped == [i \in 1..Len(rated) |->
                      [id |-> rated[i].id,
                       name |-> rated[i].name,
                       ratingTenths |-> RoundDiv(10 * Sum(rated[i].ratings), Len(rated[i].ratings)),
                       reviewCount |-> Len(rated[i].ratings)]]
    IN  Take(SortBy(mapped, ByRatingDesc), TopN)

\* a slip ClampedDays could make: the days are not clamped at 0
UnclampedDays(warrantyExpiration, t) == DaysRemaining(warrantyExpiration, t)

\* Math.max(days, 0) with days = Math.ceil((warrantyExpiration - t) / one day)
ClampedDays(warrantyExpiration, t) == Max(DaysRemaining(warrantyExpiration, t), 0)

\* stats: the numbers of listed products and providers, and the rounded mean
\* of the clamped days remaining, over products.length || 1
Stats(ps, providers, t) ==
    [totalProducts |-> Len(ps),
     totalProviders |-> Len(providers),
     avgWarrantyExpiration |->
         RoundDiv(Sum([i \in 1..Len(ps) |-> ClampedDays(ps[i].warrantyExpiration, t)]),
                  IF Len(ps) = 0 THEN 1 ELSE Len(ps))]

\* GET /api/analytics
Analytics ==
    /\ \E ps \in {GetAllProducts}, providers \in {GetAllServiceProviders} :
          last' = [op |-> "analytics",
                   at |-> now,
                   topBrands |-> TopBrands(ps),
                   topRatedProviders |-> TopRatedProviders(providers),
                   stats |-> Stats(ps, providers, now)]
    /\ UNCHANGED <<productVars, providerVars, favorites, sideVars, now, nextId>>

\* the queryFn of the analytics page
AnalyticsPage ==
    /\ \E ps \in {GetAllProducts}, providers \in {GetAllServiceProviders},
          rs \in {CommunityReviews} :
          last' = [op |-> "analyticsPage",
                   at |-> now,
                   topRatedProviders |-> TopRated(ProviderRatings(providers, rs)),
                   topBrands |-> PageTopBrands(ps),
                   topProducts |-> TopRated(ProductRatings(ps, rs)),
                   stats |-> Stats(ps, providers, now)]
    /\ UNCHANGED <<productVars, providerVars, favorites, sideVars, now, nextId>>

-----------------------------------------------------------------------------
(* The routes that accept reviews: the body is parsed with the insert       *)
(* schema, and stored only when it parses                                   *)

\* insertReviewSchema.safeParse(body).success: a productId, and a rating that
\* is a number with min(1) and max(5)
ParsesAsReview(body) ==
    /\ "productId" \in DOMAIN body
    /\ "rating" \in DOMAIN body
    /\ body.rating >= 1
    /\ body.rating <= 5

\* insertServiceProviderReviewSchema.safeParse(body).success: a providerId and
\* a rating, which the schema derived from the integer column takes as any
\* integer
ParsesAsServiceProviderReview(body) ==
    /\ "providerId" \in DOMAIN body
    /\ "rating" \in DOMAIN body
    /\ body.rating \in Int

\* the answer of a route that stores nothing
Rejected(route, status) ==
    /\ last' = [op |-> route, status |-> status]
    /\ UNCHANGED <<productVars, providerVars, favorites, sideVars, now, nextId>>

\* POST /api/reviews
PostReview(body) ==
    IF ParsesAsReview(body) THEN CreateReview(body)
    ELSE Rejected("POST /api/reviews", 400)

\* POST /api/service-provider-reviews
PostServiceProviderReview(body) ==
    IF ParsesAsServiceProviderReview(body) THEN CreateServiceProviderReview(body)
    ELSE Rejected("POST /api/service-provider-reviews", 400)

-----------------------------------------------------------------------------
(* The client profile *)

\* getClientProfile(): this.clientProfile || undefined
GetClientProfile == IF clientProfile = Null THEN Undefined ELSE clientProfile

\* a slip SaveClientProfile could make: the new fields are laid over the
\* profile already held
SaveClientProfileOver(profile) ==
    LET held == IF clientProfile = Null THEN <<>> ELSE clientProfile
        clientProf == Merge(Merge(held, profile),
                            [id |-> nextId, createdAt |-> now, updatedAt |-> now])
    IN  /\ clientProfile' = clientProf
        /\ nextId' = nextId + 1
        /\ last' = [op |-> "saveClientProfile", input |-> profile,
                    before |-> clientProfile, ret |-> clientProf]
        /\ UNCHANGED <<productVars, providerVars, favorites, notifications, jobs, now>>

\* saveClientProfile(profile)
SaveClientProfile(profile) ==
    LET clientProf == Merge(profile, [id |-> nextId, createdAt |-> now, updatedAt |-> now])
    IN  /\ clientProfile' = clientProf
        /\ nextId' = nextId + 1
        /\ last' = [op |-> "saveClientProfile", input |-> profile,
                    before |-> clientProfile, ret |-> clientProf]
        /\ UNCHANGED <<productVars, providerVars, favorites, notifications, jobs, now>>

\* updateClientProfile(profile)
UpdateClientProfile(profile) ==
    /\ IF clientProfile = Null
       THEN /\ last' = [op |-> "updateClientProfile", input |-> profile,
                        before |-> clientProfile, ret |-> Undefined]
            /\ UNCHANGED clientProfile
       ELSE LET updated == Merge(Merge(clientProfile, profile), [updatedAt |-> now])
            IN  /\ clientProfile' = updated
                /\ last' = [op |-> "updateClientProfile", input |-> profile,
                            before |-> clientProfile, ret |-> updated]
    /\ UNCHANGED <<productVars, providerVars, favorites, notifications, jobs, now, nextId>>

-----------------------------------------------------------------------------
(* Calls run step by step.  An async method runs synchronously up to its    *)
(* first await; what follows each await is a job, and the jobs run one at a *)
(* time in the order they were queued.  Between two jobs any other call of  *)
(* the store may be made.  deleteProduct awaits its two child queries;      *)
(* createServiceProviderReview awaits getAverageRating, which awaits        *)
(* getServiceProviderReviews, and then updateServiceProvider.               *)

\* a slip Enqueue could make: the new job runs before those already queued
EnqueueFirst(queue, job) == <<job>> \o queue

\* a job is queued behind those already queued
Enqueue(queue, job) == Append(queue, job)

\* some pending call has the given field set to id
Pending(field, id) ==
    \E i \in 1..Len(jobs) : field \in DOMAIN jobs[i] /\ jobs[i][field] = id

\* deleteProduct(id) up to its first await: the reviews of the product are
\* read
DeleteProductCall(id) ==
    /\ jobs' = Enqueue(jobs, [op |-> "deleteProduct", pc |-> "reviews", id |-> id,
                              snapshot |-> IdsOf(GetReviewsByProduct(id))])
    /\ last' = [op |-> "call", of |-> "deleteProduct", id |-> id]
    /\ UNCHANGED <<productVars, providerVars, favorites, notifications, clientProfile,
                   now, nextId>>

\* the next job of a pending deleteProduct: the reviews read are deleted and
\* the support requests are read; then the support requests read are deleted,
\* the product is deleted and the call returns
DeleteProductStep ==
    /\ jobs # <<>>
    /\ Head(jobs).op = "deleteProduct"
    /\ LET job == Head(jobs)
       IN  IF job.pc = "reviews"
           THEN /\ reviews' = Without(reviews, job.snapshot)
                /\ jobs' = Enqueue(Tail(jobs),
                              [job EXCEPT !.pc = "supportRequests",
                                          !.snapshot = IdsOf(GetSupportRequestsByProduct(job.id))])
                /\ last' = [op |-> "await", of |-> "deleteProduct", id |-> job.id]
                /\ UNCHANGED <<products, supportRequests>>
           ELSE /\ supportRequests' = Without(supportRequests, job.snapshot)
                /\ products' = Without(products, {job.id})
                /\ jobs' = Tail(jobs)
                /\ last' = [op |-> "deleteProduct", id |-> job.id,
                            ret |-> (job.id \in DOMAIN products)]
                /\ UNCHANGED reviews
    /\ UNCHANGED <<brands, providerVars, favorites, notifications, clientProfile, now, nextId>>

\* createServiceProviderReview(insertReview) up to its first await: the
\* review is stored and the reviews of the provider are read; overlaps tells
\* whether another call for the same provider was pending
CreateServiceProviderReviewCall(input) ==
    LET review == Merge(input, [id |-> nextId, createdAt |-> now])
    IN  /\ serviceProviderReviews' = (nextId :> review) @@ serviceProviderReviews
        /\ nextId' = nextId + 1
        /\ jobs' = Enqueue(jobs, [op |-> "createServiceProviderReview", pc |-> "average",
                                  providerId |-> input.providerId,
                                  snapshot |-> GetServiceProviderReviews(input.providerId)',
                                  averageRating |-> 0,
                                  overlaps |-> Pending("providerId", input.providerId),
                                  input |-> input, ret |-> review])
        /\ last' = [op |-> "call", of |-> "createServiceProviderReview", input |-> input]
        /\ UNCHANGED <<productVars, serviceProviders, favorites, notifications,
                       clientProfile, now>>

\* the next job of a pending createServiceProviderReview: the average of the
\* reviews read is computed; then it is rounded and written to the provider;
\* then the call returns
CreateServiceProviderReviewStep ==
    /\ jobs # <<>>
    /\ Head(jobs).op = "createServiceProviderReview"
    /\ LET job == Head(jobs)
           pid == job.providerId
       IN  CASE job.pc = "average" ->
                  /\ jobs' = Enqueue(Tail(jobs),
                                [job EXCEPT !.pc = "write",
                                            !.averageRating = RoundedAverage(job.snapshot)])
                  /\ last' = [op |-> "await", of |-> "createServiceProviderReview"]
                  /\ UNCHANGED serviceProviders
             [] job.pc = "write" ->
                  /\ serviceProviders' =
                        IF pid \notin DOMAIN serviceProviders THEN serviceProviders
                        ELSE [serviceProviders EXCEPT ![pid] =
                                 Merge(@, [averageRating |-> job.averageRating])]
                  /\ jobs' = Enqueue(Tail(jobs), [job EXCEPT !.pc = "return"])
                  /\ last' = [op |-> "await", of |-> "createServiceProviderReview"]
             [] job.pc = "return" ->
                  /\ jobs' = Tail(jobs)
                  /\ last' = [op |-> "createServiceProviderReview", input |-> job.input,
                              ret |-> job.ret, overlaps |-> job.overlaps]
                  /\ UNCHANGED serviceProviders
    /\ UNCHANGED <<productVars, serviceProviderReviews, favorites, notifications,
                   clientProfile, now, nextId>>

-----------------------------------------------------------------------------
(* Notifications *)

\* (a, b) => a.createdAt - b.createdAt: oldest first
ByCreatedAtAsc(a, b) == CmpTime(a.createdAt, b.createdAt)

\* getNotificationsByProduct(productId)
GetNotificationsByProduct(productId) ==
    LET Of(n) == n.productId = productId
    IN  SortBy(Filter(Values(notifications), Of), ByCreatedAtDesc)

\* getAllUnsentNotifications()
GetAllUnsentNotifications ==
    LET Unsent(n) == ~n.sent
    IN  SortBy(Filter(Values(notifications), Unsent), ByCreatedAtAsc)

\* createNotification(notification)
CreateNotification(notification) ==
    LET newNotification == Merge(notification, [id |-> nextId, createdAt |-> now])
    IN  /\ notifications' = (nextId :> newNotification) @@ notifications
        /\ nextId' = nextId + 1
        /\ last' = [op |-> "createNotification", ret |-> newNotification]
        /\ UNCHANGED <<productVars, providerVars, favorites, clientProfile, jobs, now>>

\* a slip MarkNotificationAsSent could make: sentAt is left as it was
MarkNotificationAsSentNoDate(id) ==
    /\ IF id \notin DOMAIN notifications
       THEN UNCHANGED notifications
       ELSE notifications' = [notifications EXCEPT ![id] = Merge(@, [sent |-> TRUE])]
    /\ last' = [op |-> "markNotificationAsSent", id |-> id, before |-> notifications,
                ret |-> (id \in DOMAIN notifications)]
    /\ UNCHANGED <<productVars, providerVars, favorites, clientProfile, jobs, now, nextId>>

\* markNotificationAsSent(id)
MarkNotificationAsSent(id) ==
    /\ IF id \notin DOMAIN notifications
       THEN UNCHANGED notifications
       ELSE notifications' = [notifications EXCEPT ![id] =
                                 Merge(@, [sent |-> TRUE, sentAt |-> now])]
    /\ last' = [op |-> "markNotificationAsSent", id |-> id, before |-> notifications,
                ret |-> (id \in DOMAIN notifications)]
    /\ UNCHANGED <<productVars, providerVars, favorites, clientProfile, jobs, now, nextId>>

-----------------------------------------------------------------------------
(* The inputs the calls are made with *)

\* keys a caller passes: the identifiers issued since the seed (stored or
\* deleted by now) and a string that is no identifier
CallerIds == {0} \cup ((Len(SeedBrandNames) + 1) .. (nextId - 1))

\* keys a lookup is made with: every stored key, and one that is not stored
\* (a lookup treats all keys that are not stored alike)
LookupIds(map) == {0} \cup DOMAIN map

AppleId == 1

NoExtension == [hasExtension |-> FALSE, extendedExpirationDate |-> NullDate]

\* purchase dates: one whose default expiration is the start of the clock, the
\* spec's Widget, and a leap day with a time of day
PurchaseDates ==
    {DateOf(2022, 6, 1, 0), DateOf(2023, 1, 15, 0), DateOf(2024, 2, 29, 36000000)}

\* extension dates: the spec's Widget extension, and one near the clock
ExtensionDates == {DateOf(2027, 1, 15, 0), DateOf(2025, 6, 2, 0)}

Extensions == [extendedExpirationDate : ExtensionDates]

\* inputs of createProduct in the warranty specification
WarrantyProductInputs ==
    {Merge(NoExtension, [brandId |-> AppleId, purchaseDate |-> d]) : d \in PurchaseDates}
    \cup {[brandId |-> AppleId, purchaseDate |-> DateOf(2023, 1, 15, 0),
           hasExtension |-> TRUE, extendedExpirationDate |-> DateOf(2027, 1, 15, 0)]}

\* partial objects PATCH /api/products/:id passes to updateProduct
WarrantyProductUpdates ==
    {[purchaseDate |-> DateOf(2022, 6, 1, 0)],
     [hasExtension |-> FALSE],
     [warrantyExpiration |-> DateOf(2025, 6, 2, 0)]}

\* the clock stays within MaxDays days and MaxTicks milliseconds of a midnight
ClockInRange(t, days, ticks) == t.day <= StartTime.day + days /\ t.ms <= ticks

TickSteps == {1, MsPerDay - 1, MsPerDay}

\* the spec's Widget: bought from Apple on 2023-01-15, no extension
Widget == Merge(NoExtension, [brandId |-> AppleId, purchaseDate |-> DateOf(2023, 1, 15, 0)])

\* inputs of createProduct in the whole-store specification: a brand that is
\* stored or one that is not, two purchase dates
StoreProductInputs ==
    {Widget,
     Merge(Widget, [purchaseDate |-> DateOf(2024, 2, 29, 36000000)]),
     Merge(Widget, [brandId |-> 0])}

\* partial objects passed to updateProduct in the whole-store specification
StoreProductUpdates == {[brandId |-> 0], [purchaseDate |-> DateOf(2022, 6, 1, 0)]}

\* names createBrand is called with: a new one and one the seed holds
BrandNameInputs == {"Miele", "Apple"}

\* ratings of the spec's FixIt scenario
Ratings == {1, 4, 5}

\* partial objects PATCH /api/support-requests/:id passes to updateSupportRequest
RequestUpdates == {[status |-> "resolved"], [id |-> 0], [productId |-> 0]}

\* a partial object PATCH /api/service-providers/:id passes to
\* updateServiceProvider: it overwrites the rating and the id field
ProviderUpdates == {[averageRating |-> 3, id |-> 0]}

FixIt == [name |-> "FixIt"]

-----------------------------------------------------------------------------
(* The warranty specification: products, their expiration and status *)

NextWarranty ==
    \/ \E d \in TickSteps :
          ClockInRange(AddMs(now, d), MaxDays, MaxTicks) /\ Tick(d)
    \/ \E input \in WarrantyProductInputs :
          Issued < MaxWarrantyIds /\ CreateProduct(input)
    \/ \E id \in LookupIds(products), updates \in WarrantyProductUpdates :
          UpdateProduct(id, updates)
    \/ \E id \in LookupIds(products), extension \in Extensions :
          AddWarrantyExtension(id, extension)
    \/ \E id \in CallerIds : DeleteProduct(id)
    \/ \E id \in LookupIds(products) : CertificatePdf(id)

SpecWarranty == Init /\ [][NextWarranty]_vars

-----------------------------------------------------------------------------
(* The cascade specification: products, their reviews and support requests *)

NextCascade ==
    \/ Issued < MaxCascadeIds /\ CreateProduct(Widget)
    \/ \E id \in LookupIds(products) : UpdateProduct(id, [id |-> 0])
    \/ \E id \in CallerIds : DeleteProduct(id)
    \/ \E productId \in CallerIds :
          Issued < MaxCascadeIds /\ CreateReview([productId |-> productId, rating |-> 5])
    \/ \E productId \in CallerIds :
          Issued < MaxCascadeIds /\ CreateSupportRequest([productId |-> productId])
    \/ \E id \in LookupIds(supportRequests), updates \in RequestUpdates :
          UpdateSupportRequest(id, updates)

SpecCascade == Init /\ [][NextCascade]_vars

-----------------------------------------------------------------------------
(* The provider specification: service providers and their reviews *)

NextProviders ==
    \/ Issued < MaxProviderIds /\ CreateServiceProvider(FixIt)
    \/ \E id \in LookupIds(serviceProviders), updates \in ProviderUpdates :
          UpdateServiceProvider(id, updates)
    \/ \E id \in LookupIds(serviceProviders) : DeleteServiceProvider(id)
    \/ \E providerId \in LookupIds(serviceProviders), rating \in Ratings :
          /\ Issued < MaxProviderIds
          /\ CreateServiceProviderReview([providerId |-> providerId, rating |-> rating])

SpecProviders == Init /\ [][NextProviders]_vars

-----------------------------------------------------------------------------
(* The catalog specification: brands and the products that name them *)

\* brand ids createProduct and updateProduct are called with: a seeded brand,
\* any identifier issued since (a created brand, or something else) and a
\* string that is no identifier
BrandIdInputs == {AppleId} \cup CallerIds

NextCatalog ==
    \/ \E name \in BrandNameInputs : Issued < MaxCatalogIds /\ CreateBrand(name)
    \/ \E b \in BrandIdInputs :
          Issued < MaxCatalogIds /\ CreateProduct(Merge(Widget, [brandId |-> b]))
    \/ \E id \in LookupIds(products), b \in BrandIdInputs :
          UpdateProduct(id, [brandId |-> b])
    \/ \E id \in CallerIds : DeleteProduct(id)

SpecCatalog == Init /\ [][NextCatalog]_vars

-----------------------------------------------------------------------------
(* The request specification: support requests and their status *)

\* bodies createSupportRequest is called with for product p: the fields of the
\* insert schema, and objects that carry a status and an emailSentAt as well
RequestInputs(p) ==
    {[productId |-> p],
     [productId |-> p, status |-> "pending"],
     [productId |-> p, status |-> "resolved", emailSentAt |-> NullDate]}

\* partial objects PATCH /api/support-requests/:id passes to
\* updateSupportRequest to set the status
StatusUpdates ==
    {[status |-> "pending"], [status |-> "sent"], [status |-> "resolved"],
     [status |-> "archived"]}

NextRequests ==
    \/ Issued < MaxRequestIds /\ CreateProduct(Widget)
    \/ \E p \in LookupIds(products) : \E input \in RequestInputs(p) :
          Issued < MaxRequestIds /\ CreateSupportRequest(input)
    \/ \E id \in LookupIds(supportRequests), updates \in StatusUpdates :
          UpdateSupportRequest(id, updates)

SpecRequests == Init /\ [][NextRequests]_vars

-----------------------------------------------------------------------------
(* The favorites specification: products, providers and the favorites toggle *)

\* the types POST /api/favorites/:type/:id/toggle is called with
FavoriteTypes == {"product", "provider"}

NextFavorites ==
    \/ Issued < MaxFavoriteIds /\ CreateProduct(Widget)
    \/ Issued < MaxFavoriteIds /\ CreateServiceProvider(FixIt)
    \/ \E type \in FavoriteTypes, targetId \in CallerIds :
          /\ IsFavorite(type, targetId) \/ Issued < MaxFavoriteIds
          /\ ToggleFavorite(type, targetId)

SpecFavorites == Init /\ [][NextFavorites]_vars

-----------------------------------------------------------------------------
(* The analytics specification: products, reviews, providers and their      *)
(* reviews, the clock, and the two analytics computations                   *)

\* brands products are registered under: two seeded ones and one not stored
AnalyticsBrandIds == {AppleId, AppleId + 1, 0}

\* bodies of POST /api/products: a Widget of each brand, bought on a day whose
\* warranty ends when the clock starts or on the spec's day
AnalyticsProductInputs ==
    {Merge(Widget, [name |-> "Widget", brandId |-> b, purchaseDate |-> d]) :
        b \in AnalyticsBrandIds, d \in {DateOf(2022, 6, 1, 0), DateOf(2023, 1, 15, 0)}}

AnalyticsRatings == {4, 5}

NextAnalytics ==
    \/ \E d \in {1, MsPerDay} : ClockInRange(AddMs(now, d), MaxAnalyticsDays, MaxTicks) /\ Tick(d)
    \/ \E input \in AnalyticsProductInputs :
          Issued < MaxAnalyticsIds /\ CreateProduct(input)
    \/ \E productId \in LookupIds(products), rating \in AnalyticsRatings :
          /\ Issued < MaxAnalyticsIds
          /\ CreateReview([productId |-> productId, rating |-> rating])
    \/ Issued < MaxAnalyticsIds /\ CreateServiceProvider(FixIt)
    \/ \E providerId \in LookupIds(serviceProviders), rating \in AnalyticsRatings :
          /\ Issued < MaxAnalyticsIds
          /\ CreateServiceProviderReview([providerId |-> providerId, rating |-> rating])
    \/ Analytics
    \/ AnalyticsPage

SpecAnalytics == Init /\ [][NextAnalytics]_vars

-----------------------------------------------------------------------------
(* The top-brands specification: enough products, over enough brands, for   *)
(* the top list to be cut                                                   *)

\* brands products are registered under: one more seeded brand than the list
\* holds, and one not stored
TopBrandIds == (1..(TopN + 1)) \cup {0}

\* the brand of the next product: one not stored, one that has products, or
\* the first seeded brand that has none (seeded brands without products are
\* alike to the analytics)
NextBrandIds ==
    LET used == {products[k].brandId : k \in DOMAIN products}
    IN  {b \in TopBrandIds : b = 0 \/ b \in used \/ (b - 1) \in used \cup {0}}

NextTopBrands ==
    \/ \E b \in NextBrandIds :
          /\ Issued < MaxTopBrandIds
          /\ CreateProduct(Merge(Widget, [name |-> "Widget", brandId |-> b]))
    \/ Analytics
    \/ AnalyticsPage

SpecTopBrands == Init /\ [][NextTopBrands]_vars

-----------------------------------------------------------------------------
(* The review-routes specification: reviews of products and providers as   *)
(* the HTTP routes accept them                                              *)

\* ratings a body carries: the ends of 1..5 and the integers next to them
RouteRatings == {0, 1, 5, 6}

\* bodies of POST /api/reviews for product p
ReviewBodies(p) ==
    {[productId |-> p, rating |-> r] : r \in RouteRatings} \cup {[productId |-> p]}

\* bodies of POST /api/service-provider-reviews for provider X
ServiceProviderReviewBodies(X) ==
    {[providerId |-> X, rating |-> r] : r \in RouteRatings} \cup {[providerId |-> X]}

NextReviewRoutes ==
    \/ Issued < MaxRouteIds /\ CreateProduct(Widget)
    \/ Issued < MaxRouteIds /\ CreateServiceProvider(FixIt)
    \/ \E p \in LookupIds(products) : \E body \in ReviewBodies(p) :
          (ParsesAsReview(body) => Issued < MaxRouteIds) /\ PostReview(body)
    \/ \E X \in LookupIds(serviceProviders) : \E body \in ServiceProviderReviewBodies(X) :
          /\ ParsesAsServiceProviderReview(body) => Issued < MaxRouteIds
          /\ PostServiceProviderReview(body)

SpecReviewRoutes == Init /\ [][NextReviewRoutes]_vars

-----------------------------------------------------------------------------
(* The profile specification: the client profile and the clock *)

\* bodies of POST /api/profile, which are stored as they come: two profiles
\* with different fields, and one that carries an id and dates of its own
ProfileInputs ==
    {[fullName |-> "Ana", email |-> "ana@example.org", taxNumber |-> "123456789"],
     [fullName |-> "Rui", email |-> "rui@example.org"],
     [fullName |-> "Eva", id |-> 0, createdAt |-> NullDate, updatedAt |-> NullDate]}

\* partial profiles updateClientProfile is called with
ProfileUpdates == {[email |-> "new@example.org"], [postalCode |-> "1000-001"]}

NextProfile ==
    \/ ClockInRange(AddMs(now, 1), 0, MaxTicks) /\ Tick(1)
    \/ \E profile \in ProfileInputs : Issued < MaxProfileIds /\ SaveClientProfile(profile)
    \/ \E profile \in ProfileUpdates : UpdateClientProfile(profile)

SpecProfile == Init /\ [][NextProfile]_vars

-----------------------------------------------------------------------------
(* The stepwise-delete specification: deleteProduct run step by step,      *)
(* with reviews and support requests created between its steps              *)

NextStepwiseDelete ==
    \/ Issued < MaxStepwiseIds /\ CreateProduct(Widget)
    \/ \E productId \in LookupIds(products) :
          Issued < MaxStepwiseIds /\ CreateReview([productId |-> productId, rating |-> 5])
    \/ \E productId \in LookupIds(products) :
          Issued < MaxStepwiseIds /\ CreateSupportRequest([productId |-> productId])
    \/ \E id \in LookupIds(products) : Len(jobs) < MaxJobs /\ DeleteProductCall(id)
    \/ DeleteProductStep

SpecStepwiseDelete == Init /\ [][NextStepwiseDelete]_vars

-----------------------------------------------------------------------------
(* The stepwise-review specification: createServiceProviderReview run     *)
(* step by step, with further calls made between its steps                  *)

\* ratings far enough apart for a mean over too few reviews to show
StepwiseRatings == {1, 5}

NextStepwiseReviews ==
    \/ Issued < MaxStepwiseIds /\ CreateServiceProvider(FixIt)
    \/ \E providerId \in LookupIds(serviceProviders), rating \in StepwiseRatings :
          /\ Issued < MaxStepwiseIds
          /\ Len(jobs) < MaxJobs
          /\ CreateServiceProviderReviewCall([providerId |-> providerId, rating |-> rating])
    \/ CreateServiceProviderReviewStep

SpecStepwiseReviews == Init /\ [][NextStepwiseReviews]_vars

-----------------------------------------------------------------------------
(* The notification specification: products, their notifications and the  *)
(* clock                                                                    *)

\* notifications createNotification is called with for product p: one not
\* sent yet of either of two types, and one that comes marked as sent
NotificationInputs(p) ==
    {[productId |-> p, type |-> "30days", sent |-> FALSE, sentAt |-> NullDate],
     [productId |-> p, type |-> "expired", sent |-> FALSE, sentAt |-> NullDate],
     [productId |-> p, type |-> "expired", sent |-> TRUE, sentAt |-> StartTime]}

NextNotifications ==
    \/ ClockInRange(AddMs(now, 1), 0, MaxTicks) /\ Tick(1)
    \/ Issued < MaxNotificationIds /\ CreateProduct(Widget)
    \/ \E id \in LookupIds(products) : DeleteProduct(id)
    \/ \E p \in LookupIds(products) : \E notification \in NotificationInputs(p) :
          Issued < MaxNotificationIds /\ CreateNotification(notification)
    \/ \E id \in LookupIds(notifications) : MarkNotificationAsSent(id)

SpecNotifications == Init /\ [][NextNotifications]_vars

-----------------------------------------------------------------------------
(* The whole store *)

Next ==
    \/ ClockInRange(AddMs(now, 1), 0, MaxTicks) /\ Tick(1)
    \/ \E name \in BrandNameInputs : Issued < MaxIds /\ CreateBrand(name)
    \/ \E input \in StoreProductInputs : Issued < MaxIds /\ CreateProduct(input)
    \/ \E id \in LookupIds(products), updates \in StoreProductUpdates :
          UpdateProduct(id, updates)
    \/ \E id \in CallerIds : DeleteProduct(id)
    \/ \E id \in LookupIds(products) :
          AddWarrantyExtension(id, [extendedExpirationDate |-> DateOf(2027, 1, 15, 0)])
    \/ \E productId \in CallerIds :
          Issued < MaxIds /\ CreateReview([productId |-> productId, rating |-> 5])
    \/ \E productId \in CallerIds :
          Issued < MaxIds /\ CreateSupportRequest([productId |-> productId])
    \/ \E id \in LookupIds(supportRequests) :
          UpdateSupportRequest(id, [status |-> "resolved"])
    \/ Issued < MaxIds /\ CreateServiceProvider(FixIt)
    \/ \E id \in LookupIds(serviceProviders) :
          UpdateServiceProvider(id, [averageRating |-> 3])
    \/ \E id \in CallerIds : DeleteServiceProvider(id)
    \/ \E providerId \in CallerIds, rating \in {1, 5} :
          /\ Issued < MaxIds
          /\ CreateServiceProviderReview([providerId |-> providerId, rating |-> rating])

Spec == Init /\ [][Next]_vars

-----------------------------------------------------------------------------
(* Claims on the warranty computation *)

IsLeapDay(t) == GetMonth(t) = 1 /\ GetDate(t) = 29

\* e has the month, day of the month and time of day of p, n years on
SameDayYearsLater(p, e, n) ==
    /\ GetFullYear(e) = GetFullYear(p) + n
    /\ GetMonth(e) = GetMonth(p)
    /\ GetDate(e) = GetDate(p)
    /\ e.ms = p.ms

\* createProduct has just returned a product made from an input without extension
CreatedWithoutExtension == last.op = "createProduct" /\ ~last.input.hasExtension

\* the product a call returned is the one the store holds under its id
StoredAsReturned ==
    last.ret.id \in DOMAIN products /\ products[last.ret.id] = last.ret

\* C1 as stated: createProduct on an input without extension stores and
\* returns a product whose warrantyExpiration has the month, day and time of
\* day of purchaseDate and its year plus 3, leap days included.
C1_SameDayThreeYearsLater ==
    CreatedWithoutExtension =>
        /\ StoredAsReturned
        /\ SameDayYearsLater(last.input.purchaseDate, last.ret.warrantyExpiration, 3)

\* C1 amended: the same for every purchaseDate that is not 29 February; for a
\* purchaseDate of 29 February warrantyExpiration is 1 March of the year
\* plus 3, at the same time of day.
C1_SameDayUnlessLeapDay ==
    CreatedWithoutExtension =>
        LET p == last.input.purchaseDate
            e == last.ret.warrantyExpiration
        IN  /\ StoredAsReturned
            /\ last.ret.purchaseDate = p
            /\ IF IsLeapDay(p)
               THEN /\ GetFullYear(e) = GetFullYear(p) + 3
                    /\ GetMonth(e) = 2 /\ GetDate(e) = 1
                    /\ e.ms = p.ms
               ELSE SameDayYearsLater(p, e, 3)

\* C1 witness: a product was just created from a leap-day purchase
C1_Witness == CreatedWithoutExtension /\ IsLeapDay(last.input.purchaseDate)

\* addWarrantyExtension has just been applied to a stored product
ExtensionApplied == last.op = "addWarrantyExtension" /\ last.ret # Undefined

\* C2: addWarrantyExtension(id, E) on a stored product stores and returns a
\* product with warrantyExpiration = E.extendedExpirationDate and
\* hasExtension = true, whatever the product was before.
C2_ExtensionOverrides ==
    ExtensionApplied =>
        /\ last.ret.warrantyExpiration = last.extension.extendedExpirationDate
        /\ last.ret.hasExtension = TRUE
        /\ last.id \in DOMAIN products /\ products[last.id] = last.ret

\* C2 witness: an extension was just applied to a product that already had
\* another extension, and its earlier expiration is gone
C2_Witness ==
    /\ ExtensionApplied
    /\ last.before.hasExtension
    /\ last.before.warrantyExpiration # last.extension.extendedExpirationDate
    /\ products[last.id].warrantyExpiration # last.before.warrantyExpiration

\* C3: every stored product has warrantyExpiration = extendedExpirationDate
\* if hasExtension is true, and purchaseDate + 3 years otherwise.
C3_ExpirationInvariant ==
    \A id \in DOMAIN products :
        LET p == products[id]
        IN  IF p.hasExtension
            THEN p.warrantyExpiration = p.extendedExpirationDate
            ELSE p.warrantyExpiration = DefaultExpiration(p.purchaseDate)

\* a certificate has just been produced for a product
CertificateIssued == last.op = "certificatePdf" /\ last.status = 200

\* C4 as stated: the status derived from daysRemaining is expired if and only
\* if warrantyExpiration < now.
C4_ExpiredIffBeforeNow ==
    CertificateIssued =>
        (last.isExpired <=> CmpTime(last.warrantyExpiration, last.at) < 0)

\* C4 amended: the status is expired if and only if warrantyExpiration lies a
\* whole day or more before now (warrantyExpiration + one day <= now); an
\* expired status implies warrantyExpiration < now, not the converse.
C4_ExpiredIffADayBeforeNow ==
    CertificateIssued =>
        /\ last.isExpired <=> CmpTime(AddMs(last.warrantyExpiration, MsPerDay), last.at) <= 0
        /\ last.isExpired => CmpTime(last.warrantyExpiration, last.at) < 0

\* C4 witness: a certificate for a warranty that ended less than a day ago
C4_Witness ==
    /\ CertificateIssued
    /\ CmpTime(last.warrantyExpiration, last.at) < 0
    /\ ~last.isExpired

-----------------------------------------------------------------------------
(* Claims on deletion and on references between entities *)

\* the elements of a list
Elements(l) == {l[i] : i \in 1..Len(l)}

\* C5: deleteProduct(P) on a stored product returns true, and afterwards
\* getProduct(P) is undefined and no review and no support request with
\* productId = P is stored or returned by a query; after any deleteProduct(P)
\* the product is gone, so that a second one returns false.
C5_CascadeDelete ==
    last.op = "deleteProduct" =>
        /\ last.ret \in BOOLEAN
        /\ GetProduct(last.id) = Undefined
        /\ last.ret =>
              /\ \A k \in DOMAIN reviews : reviews[k].productId # last.id
              /\ \A k \in DOMAIN supportRequests : supportRequests[k].productId # last.id
              /\ GetReviewsByProduct(last.id) = <<>>
              /\ GetSupportRequestsByProduct(last.id) = <<>>
              /\ \A r \in Elements(GetAllReviews) : r.productId # last.id
              /\ \A r \in Elements(GetAllSupportRequests) : r.productId # last.id

\* deleteServiceProvider has just returned true
ProviderDeleted == last.op = "deleteServiceProvider" /\ last.ret

\* C6: deleteServiceProvider(X) on a stored provider returns true, and
\* afterwards X is not stored, no review with providerId = X is stored or
\* returned by getServiceProviderReviews(X), and the reviews of every other
\* provider are stored as they were.
C6_ProviderCascade ==
    ProviderDeleted =>
        /\ last.id \notin DOMAIN serviceProviders
        /\ GetServiceProviderReviews(last.id) = <<>>
        /\ \A k \in DOMAIN serviceProviderReviews :
              serviceProviderReviews[k].providerId # last.id
        /\ \A k \in DOMAIN last.before :
              last.before[k].providerId # last.id =>
                  /\ k \in DOMAIN serviceProviderReviews
                  /\ serviceProviderReviews[k] = last.before[k]
        /\ DOMAIN serviceProviderReviews \subseteq DOMAIN last.before

\* C6 witness: a provider with reviews was just deleted while another stored
\* provider had reviews too
C6_Witness ==
    /\ ProviderDeleted
    /\ \E k \in DOMAIN last.before : last.before[k].providerId = last.id
    /\ \E k \in DOMAIN last.before :
          /\ last.before[k].providerId # last.id
          /\ last.before[k].providerId \in DOMAIN serviceProviders

\* a review has just been filed for a stored provider
ReviewFiled ==
    /\ last.op = "createServiceProviderReview"
    /\ last.input.providerId \in DOMAIN serviceProviders

\* the keys of the stored reviews of provider X
ReviewKeysOf(X) ==
    {k \in DOMAIN serviceProviderReviews : serviceProviderReviews[k].providerId = X}

RECURSIVE RatingSum(_)
\* the sum of the ratings of the stored reviews with keys ks
RatingSum(ks) ==
    IF ks = {} THEN 0
    ELSE LET k == CHOOSE x \in ks : TRUE
         IN  serviceProviderReviews[k].rating + RatingSum(ks \ {k})

\* C7: after each createServiceProviderReview for a stored provider X,
\* X.averageRating is the mean of the ratings of all of X's stored reviews
\* rounded to the nearest integer, a half rounded up:
\* averageRating <= sum / n + 1/2 < averageRating + 1.
C7_RoundedMean ==
    ReviewFiled =>
        LET X == last.input.providerId
            n == Cardinality(ReviewKeysOf(X))
            sum == RatingSum(ReviewKeysOf(X))
            averageRating == serviceProviders[X].averageRating
        IN  /\ last.ret.id \in ReviewKeysOf(X)
            /\ 2 * averageRating * n <= 2 * sum + n
            /\ 2 * sum + n < 2 * (averageRating + 1) * n

\* C7 witness: FixIt has received the ratings 5, 4, 5 and 1, in that order,
\* and its averageRating is 4
C7_Witness ==
    /\ ReviewFiled
    /\ \E ks \in {KeySeq(ReviewKeysOf(last.input.providerId))} :
          /\ [i \in 1..Len(ks) |-> serviceProviderReviews[ks[i]].rating] = <<5, 4, 5, 1>>
    /\ serviceProviders[last.input.providerId].averageRating = 4

\* C8: every stored review and every stored support request has a productId
\* that is the key of a stored product.
C8_ProductIdResolves ==
    /\ \A k \in DOMAIN reviews : reviews[k].productId \in DOMAIN products
    /\ \A k \in DOMAIN supportRequests : supportRequests[k].productId \in DOMAIN products

-----------------------------------------------------------------------------
(* Claims on the list reads *)

\* the keys of the stored products whose brandId is the key of a stored brand
Resolved == {k \in DOMAIN products : products[k].brandId \in DOMAIN brands}

\* product k with its brand
JoinedProduct(k) == Merge(products[k], [brand |-> brands[products[k].brandId]])

\* C9: getAllProducts returns exactly the stored products whose brandId
\* resolves, once each and joined with that brand; getProductWithBrand(id) is
\* undefined exactly for the ids that are not stored or whose brandId does
\* not resolve, and the joined product otherwise.
C9_ListedIffBrandResolves ==
    /\ \A l \in {GetAllProducts} :
          /\ Len(l) = Cardinality(Resolved)
          /\ Elements(l) = {JoinedProduct(k) : k \in Resolved}
    /\ \A id \in CallerIds \cup DOMAIN products :
          /\ GetProductWithBrand(id) = Undefined <=> id \notin Resolved
          /\ id \in Resolved => GetProductWithBrand(id) = JoinedProduct(id)

\* C9 witness: one stored product is listed with a brand created after the
\* seed while another stored product, whose brandId names no brand, is not
C9_Witness ==
    /\ \E k \in Resolved : products[k].brandId \notin SeedIds
    /\ \E k \in DOMAIN products \ Resolved :
          \A p \in Elements(GetAllProducts) : p.id # k

\* the list l is non-increasing in the date Field reads
NewestFirst(l, Field(_)) ==
    \A i, j \in 1..Len(l) : i < j => CmpTime(Field(l[i]), Field(l[j])) >= 0

PurchaseDateOf(p) == p.purchaseDate
CreatedAtOf(r) == r.createdAt

\* C10: getAllProducts is non-increasing in purchaseDate, getAllBrands is
\* ascending by name, getAllReviews, getAllSupportRequests and
\* getServiceProviderReviews are non-increasing in createdAt, and
\* getAllServiceProviders is non-increasing in averageRating; the lists that
\* are not filtered hold every stored element.
C10_ListsOrdered ==
    /\ \A l \in {GetAllProducts} : NewestFirst(l, PurchaseDateOf)
    /\ \A l \in {GetAllBrands} :
          /\ \A i, j \in 1..Len(l) : i < j => NameRank(l[i].name) <= NameRank(l[j].name)
          /\ Len(l) = Cardinality(DOMAIN brands)
          /\ Elements(l) = {brands[k] : k \in DOMAIN brands}
    /\ \A l \in {GetAllReviews} :
          /\ NewestFirst(l, CreatedAtOf)
          /\ Len(l) = Cardinality(DOMAIN reviews)
          /\ Elements(l) = {reviews[k] : k \in DOMAIN reviews}
    /\ \A l \in {GetAllSupportRequests} :
          /\ NewestFirst(l, CreatedAtOf)
          /\ Len(l) = Cardinality(DOMAIN supportRequests)
          /\ Elements(l) = {supportRequests[k] : k \in DOMAIN supportRequests}
    /\ \A X \in CallerIds : \A l \in {GetServiceProviderReviews(X)} :
          /\ NewestFirst(l, CreatedAtOf)
          /\ Elements(l) = {serviceProviderReviews[k] : k \in ReviewKeysOf(X)}
    /\ \A l \in {GetAllServiceProviders} :
          /\ \A i, j \in 1..Len(l) : i < j => l[i].averageRating >= l[j].averageRating
          /\ Len(l) = Cardinality(DOMAIN serviceProviders)
          /\ Elements(l) = {serviceProviders[k] : k \in DOMAIN serviceProviders}

\* C10 witness: getAllProducts lists a product bought later before one bought
\* earlier although it was stored after it
C10_Witness ==
    \E l \in {GetAllProducts} :
        /\ Len(l) = 2
        /\ l[1].id > l[2].id
        /\ CmpTime(l[1].purchaseDate, l[2].purchaseDate) > 0

-----------------------------------------------------------------------------
(* Claims on the favorites *)

\* the (type, targetId) pairs of the favorites held by a Map
FavoritePairs(map) == {<<map[k].type, map[k].targetId>> : k \in DOMAIN map}

\* toggleFavorite has just returned
Toggled == last.op = "toggleFavorite"

\* the call before the last one toggled the same pair
ToggledTwice ==
    /\ Toggled
    /\ last.prior # Undefined
    /\ last.prior.type = last.type
    /\ last.prior.targetId = last.targetId

\* C11: toggleFavorite(t, x) returns true iff (t, x) was not a favorite
\* before the call; afterwards isFavorite(t, x) is the returned value; the
\* membership of every other pair is as before; two toggles of the same pair
\* in a row restore the membership; and no two stored favorites have the
\* same (type, targetId).
C11_ToggleFlips ==
    /\ \A j, k \in DOMAIN favorites :
          j # k => <<favorites[j].type, favorites[j].targetId>>
                       # <<favorites[k].type, favorites[k].targetId>>
    /\ Toggled =>
          LET pair == <<last.type, last.targetId>>
          IN  /\ last.ret <=> pair \notin FavoritePairs(last.before)
              /\ IsFavorite(last.type, last.targetId) <=> last.ret
              /\ pair \in FavoritePairs(favorites) <=> last.ret
              /\ FavoritePairs(favorites) \ {pair} = FavoritePairs(last.before) \ {pair}
    /\ ToggledTwice => FavoritePairs(favorites) = FavoritePairs(last.prior.before)

\* C11 witness: a pair was toggled on and off again while the same target
\* stayed a favorite under the other type
C11_Witness ==
    /\ ToggledTwice
    /\ ~last.ret
    /\ \E type \in FavoriteTypes :
          type # last.type /\ <<type, last.targetId>> \in FavoritePairs(favorites)

-----------------------------------------------------------------------------
(* Claims on the status of support requests *)

\* the request with key k has status s now and did not have it before the step
BecomesStatus(k, s) ==
    /\ k \in DOMAIN supportRequests'
    /\ supportRequests'[k].status = s
    /\ k \in DOMAIN supportRequests => supportRequests[k].status # s

\* C12: every request createSupportRequest returns has status "sent" and a
\* set emailSentAt, whatever the input, and is stored as returned; a stored
\* request takes status "pending" only in a step of updateSupportRequest on
\* that request.
C12_CreatedAsSent ==
    [][/\ last'.op = "createSupportRequest" =>
             /\ last'.ret.status = "sent"
             /\ last'.ret.emailSentAt # NullDate
             /\ last'.ret.id \in DOMAIN supportRequests'
             /\ supportRequests'[last'.ret.id] = last'.ret
       /\ \A k \in DOMAIN supportRequests' :
             BecomesStatus(k, "pending") =>
                 last'.op = "updateSupportRequest" /\ last'.id = k]_vars

\* C12 witness: a request was just created from an input that asked for
\* status "pending", while another stored request has been set to "pending"
C12_Witness ==
    /\ last.op = "createSupportRequest"
    /\ "status" \in DOMAIN last.input
    /\ last.input.status = "pending"
    /\ \E k \in DOMAIN supportRequests : supportRequests[k].status = "pending"

\* the place of a status in pending -> sent -> resolved, 0 for any other value
StatusRank(s) ==
    CASE s = "pending" -> 1
      [] s = "sent" -> 2
      [] s = "resolved" -> 3
      [] OTHER -> 0

\* C13: in every step of createSupportRequest or updateSupportRequest the
\* status of a stored request is one of pending, sent and resolved and does
\* not move backward along pending -> sent -> resolved.
C13_StatusMovesForward ==
    [][\A k \in DOMAIN supportRequests' :
          /\ StatusRank(supportRequests'[k].status) >= 1
          /\ k \in DOMAIN supportRequests =>
                StatusRank(supportRequests'[k].status)
                    >= StatusRank(supportRequests[k].status)]_vars

-----------------------------------------------------------------------------
(* Claims on the analytics *)

\* the analytics have just been computed, at time last.at, by the server or by
\* the page (no call but Tick, which changes no entity, leaves last as it is)
AnalyticsComputed == last.op \in {"analytics", "analyticsPage"}

\* the stored providers that have at least one stored review
ReviewedProviders == {X \in DOMAIN serviceProviders : ReviewKeysOf(X) # {}}

\* C14: topRatedProviders contains only providers with at least one stored
\* ServiceProviderReview, and every such provider when there are at most five;
\* each entry's rating is the mean of that provider's review ratings rounded
\* to one decimal place, and its reviewCount is their number.
C14_TopRatedProviders ==
    AnalyticsComputed =>
        LET top == last.topRatedProviders
        IN  /\ \A i \in 1..Len(top) : top[i].id \in ReviewedProviders
            /\ Cardinality(ReviewedProviders) <= TopN =>
                  \A X \in ReviewedProviders : \E i \in 1..Len(top) : top[i].id = X
            /\ \A i \in 1..Len(top) :
                  top[i].id \in ReviewedProviders =>
                      LET ks == ReviewKeysOf(top[i].id)
                      IN  /\ top[i].reviewCount = Cardinality(ks)
                          /\ top[i].ratingTenths
                                = RoundDiv(10 * RatingSum(ks), Cardinality(ks))

\* the brandIds of the listed products
ListedBrandIds == {products[k].brandId : k \in {j \in DOMAIN products : GetProductWithBrand(j) # Undefined}}

\* the number of listed products of brand b
ListedCountOf(b) ==
    Cardinality({k \in DOMAIN products :
                    GetProductWithBrand(k) # Undefined /\ products[k].brandId = b})

\* the keys of the stored reviews of product P
ProductReviewKeysOf(P) == {k \in DOMAIN reviews : reviews[k].productId = P}

\* the listed products that have at least one stored review
ReviewedProducts ==
    {P \in DOMAIN products : GetProductWithBrand(P) # Undefined /\ ProductReviewKeysOf(P) # {}}

RECURSIVE ProductRatingSum(_)
\* the sum of the ratings of the stored product reviews with keys ks
ProductRatingSum(ks) ==
    IF ks = {} THEN 0
    ELSE LET k == CHOOSE x \in ks : TRUE
         IN  reviews[k].rating + ProductRatingSum(ks \ {k})

\* the mean rating of reviewed provider X, and of reviewed product P, in tenths
ProviderMeanTenths(X) ==
    RoundDiv(10 * RatingSum(ReviewKeysOf(X)), Cardinality(ReviewKeysOf(X)))
ProductMeanTenths(P) ==
    RoundDiv(10 * ProductRatingSum(ProductReviewKeysOf(P)), Cardinality(ProductReviewKeysOf(P)))

\* the key a top list entry is ranked by
KeyOf(e) ==
    IF "count" \in DOMAIN e THEN e.count
    ELSE IF "productCount" \in DOMAIN e THEN e.productCount
    ELSE e.ratingTenths

\* top is cut at five, is in descending order of its keys (strictly, or not),
\* and leaves out no qualifying entry, of key Key, that ranks above one it holds
TopListCut(top, qualifying, Key(_), strictly) ==
    /\ Len(top) <= TopN
    /\ Cardinality(qualifying) > TopN => Len(top) = TopN
    /\ \A i, j \in 1..Len(top) :
          i < j => IF strictly THEN KeyOf(top[i]) > KeyOf(top[j])
                   ELSE KeyOf(top[i]) >= KeyOf(top[j])
    /\ \A q \in qualifying :
          (\A i \in 1..Len(top) : top[i].id # q) =>
              \A i \in 1..Len(top) : Key(q) <= KeyOf(top[i])

\* C15: every top list (topBrands by product count, topRatedProviders and
\* topProducts by mean rating) has at most five entries, exactly five when
\* more than five qualify, is sorted strictly descending by its key, and
\* omits no qualifying entry with a greater key than an included one;
\* entries without reviews are absent from the rating-based lists.
C15_TopLists ==
    AnalyticsComputed =>
        /\ TopListCut(last.topBrands, ListedBrandIds, ListedCountOf, TRUE)
        /\ TopListCut(last.topRatedProviders, ReviewedProviders, ProviderMeanTenths, TRUE)
        /\ \A i \in 1..Len(last.topRatedProviders) :
              last.topRatedProviders[i].id \in ReviewedProviders
        /\ last.op = "analyticsPage" =>
              /\ TopListCut(last.topProducts, ReviewedProducts, ProductMeanTenths, TRUE)
              /\ \A i \in 1..Len(last.topProducts) :
                    last.topProducts[i].id \in ReviewedProducts

\* the keys of the listed products: those getAllProducts returns
ListedProducts == {k \in DOMAIN products : GetProductWithBrand(k) # Undefined}

\* C16: topBrands groups the listed products by brandId: each entry's count
\* is the number of products with that brandId, its name is the stored
\* Brand's name, no brandId appears twice, and the counts sum to the number
\* of listed products when at most five brands have products.
C16_TopBrandsGroup ==
    AnalyticsComputed =>
        LET top == last.topBrands
        IN  /\ \A i \in 1..Len(top) :
                  /\ top[i].id \in ListedBrandIds
                  /\ KeyOf(top[i])
                        = Cardinality({k \in DOMAIN products : products[k].brandId = top[i].id})
                  /\ top[i].name = brands[top[i].id].name
            /\ \A i, j \in 1..Len(top) : i # j => top[i].id # top[j].id
            /\ Cardinality(ListedBrandIds) <= TopN =>
                  Sum([i \in 1..Len(top) |-> KeyOf(top[i])]) = Cardinality(ListedProducts)

\* C16 witness: six products are stored, two of them under a brand that is not
\* stored; the page lists three brands, the first with two products
C16_Witness ==
    /\ last.op = "analyticsPage"
    /\ Cardinality(DOMAIN products) = MaxTopBrandIds
    /\ Cardinality(ListedProducts) = MaxTopBrandIds - 2
    /\ Len(last.topBrands) = 3
    /\ last.topBrands[1].productCount = 2

RECURSIVE ClampedDaysSum(_, _)
\* the sum, over the products with keys ks, of the days remaining at time t,
\* those of an expired product counted as 0
ClampedDaysSum(ks, t) ==
    IF ks = {} THEN 0
    ELSE LET k == CHOOSE x \in ks : TRUE
             days == DaysRemaining(products[k].warrantyExpiration, t)
         IN  (IF days > 0 THEN days ELSE 0) + ClampedDaysSum(ks \ {k}, t)

\* C17: stats.avgWarrantyExpiration is the sum, over the listed products, of
\* max(ceil((warrantyExpiration - now) / one day), 0), divided by
\* max(number of products, 1) and rounded to the nearest integer, a half
\* rounded up; it is 0 when no product is listed and is never negative.
C17_AverageDaysRemaining ==
    AnalyticsComputed =>
        LET avg == last.stats.avgWarrantyExpiration
            n == Cardinality(ListedProducts)
            d == IF n > 1 THEN n ELSE 1
            sum == ClampedDaysSum(ListedProducts, last.at)
        IN  /\ 2 * avg * d <= 2 * sum + d
            /\ 2 * sum + d < 2 * (avg + 1) * d
            /\ n = 0 => avg = 0
            /\ avg >= 0

\* C17 witness: of two listed products one expired a day before the analytics
\* are computed, and the mean of the clamped days lies half-way between two
\* integers
C17_Witness ==
    /\ AnalyticsComputed
    /\ Cardinality(ListedProducts) = 2
    /\ \E k \in ListedProducts : DaysRemaining(products[k].warrantyExpiration, last.at) < 0
    /\ 2 * last.stats.avgWarrantyExpiration = ClampedDaysSum(ListedProducts, last.at) + 1
    /\ last.stats.avgWarrantyExpiration > 0

\* C18: the analytics stats.totalProducts equals the number of Products held
\* in the store, and stats.totalProviders the number of stored
\* ServiceProviders.
C18_TotalsCountTheStore ==
    AnalyticsComputed =>
        /\ last.stats.totalProducts = Cardinality(DOMAIN products)
        /\ last.stats.totalProviders = Cardinality(DOMAIN serviceProviders)

-----------------------------------------------------------------------------
(* Claims on identifiers that are not stored *)

\* the entity maps
entityMaps ==
    <<brands, products, reviews, supportRequests, serviceProviders,
      serviceProviderReviews, favorites, notifications>>

\* the calls that change the entity stored under an id, and the map each
\* looks the id up in
UpdateOps ==
    {"updateProduct", "addWarrantyExtension", "updateSupportRequest", "updateServiceProvider"}
MapOf(op) ==
    CASE op \in {"updateProduct", "addWarrantyExtension"} -> products
      [] op = "updateSupportRequest" -> supportRequests
      [] op = "updateServiceProvider" -> serviceProviders

\* C19: for an id that is not stored, getProduct, getReview, getSupportRequest
\* and getServiceProvider return undefined, and updateProduct,
\* updateSupportRequest, updateServiceProvider and addWarrantyExtension
\* return undefined, create no entity under that id and leave every entity
\* map unchanged.
C19_NotStored ==
    /\ [](\A id \in 0..nextId :
            /\ id \notin DOMAIN products => GetProduct(id) = Undefined
            /\ id \notin DOMAIN reviews => GetReview(id) = Undefined
            /\ id \notin DOMAIN supportRequests => GetSupportRequest(id) = Undefined
            /\ id \notin DOMAIN serviceProviders => GetServiceProvider(id) = Undefined)
    /\ [][\A op \in UpdateOps :
             last'.op = op /\ last'.id \notin DOMAIN MapOf(op) =>
                 /\ last'.ret = Undefined
                 /\ last'.id \notin DOMAIN MapOf(op)'
                 /\ UNCHANGED entityMaps]_vars

\* C19 witness: updateProduct was just called with an id that is not stored,
\* in a store that holds a product, and returned undefined
C19_Witness ==
    /\ last.op = "updateProduct"
    /\ last.id \notin DOMAIN products
    /\ last.ret = Undefined
    /\ products # <<>>

-----------------------------------------------------------------------------
(* Claims on the brands *)

\* C20: starting from the seeded store, after any sequence of createBrand
\* calls no two stored Brands have the same name.
C20_BrandNamesUnique ==
    \A i, j \in DOMAIN brands : i # j => brands[i].name # brands[j].name

-----------------------------------------------------------------------------
(* Claims on ratings *)

\* C21: every stored Review and every stored ServiceProviderReview accepted
\* through the HTTP routes has an integer rating in 1..5, so every
\* ServiceProvider's averageRating is 0, with no reviews, or lies in 1..5.
C21_RatingsInRange ==
    /\ \A k \in DOMAIN reviews : reviews[k].rating \in 1..5
    /\ \A k \in DOMAIN serviceProviderReviews : serviceProviderReviews[k].rating \in 1..5
    /\ \A X \in DOMAIN serviceProviders :
          \/ serviceProviders[X].averageRating = 0 /\ ReviewKeysOf(X) = {}
          \/ serviceProviders[X].averageRating \in 1..5

-----------------------------------------------------------------------------
(* Claims on the client profile *)

\* the fields saveClientProfile sets itself
ProfileStamps == {"id", "createdAt", "updatedAt"}

\* C22: at most one ClientProfile exists; every saveClientProfile(p), the
\* first and every later one, leaves getClientProfile returning exactly p's
\* fields with a fresh id and createdAt = updatedAt, and nothing of the
\* earlier profile; updateClientProfile when no profile exists returns
\* undefined and creates none.
C22_SaveReplaces ==
    /\ clientProfile = Null \/ ProfileStamps \subseteq DOMAIN clientProfile
    /\ last.op = "saveClientProfile" =>
          /\ GetClientProfile = last.ret
          /\ DOMAIN last.ret = DOMAIN last.input \cup ProfileStamps
          /\ \A f \in DOMAIN last.input \ ProfileStamps : last.ret[f] = last.input[f]
          /\ last.ret.id = nextId - 1
          /\ last.before # Null => last.ret.id # last.before.id
          /\ last.ret.createdAt = last.ret.updatedAt
          /\ last.ret.createdAt # NullDate
    /\ last.op = "updateClientProfile" /\ last.before = Null =>
          /\ last.ret = Undefined
          /\ clientProfile = Null
          /\ GetClientProfile = Undefined

\* C22 witness: a profile without a tax number has just replaced, at a later
\* time, one that had a tax number and had been updated
C22_Witness ==
    /\ last.op = "saveClientProfile"
    /\ last.before # Null
    /\ "taxNumber" \in DOMAIN last.before
    /\ "postalCode" \in DOMAIN last.before
    /\ "taxNumber" \notin DOMAIN last.input
    /\ last.before.createdAt # last.ret.createdAt

-----------------------------------------------------------------------------
(* Claims on the extension of a warranty *)

\* C23: for every stored product with hasExtension = TRUE, warrantyExpiration
\* is strictly later than purchaseDate + 3 years.
C23_ExtensionIsLater ==
    \A id \in DOMAIN products :
        products[id].hasExtension =>
            CmpTime(products[id].warrantyExpiration,
                    DefaultExpiration(products[id].purchaseDate)) > 0

-----------------------------------------------------------------------------
(* Claims on calls that interleave *)

\* C24: if deleteProduct(P) returns true while createReview and
\* createSupportRequest calls for P were made between its steps, then when
\* it returns no Review and no SupportRequest with productId = P is stored.
C24_DeleteIsAllOrNothing ==
    last.op = "deleteProduct" /\ last.ret =>
        /\ \A k \in DOMAIN reviews : reviews[k].productId # last.id
        /\ \A k \in DOMAIN supportRequests : supportRequests[k].productId # last.id

\* C25: once every createServiceProviderReview call for provider X has
\* completed, however the calls interleaved, X.averageRating is the mean of
\* the ratings of all of X's stored reviews rounded to the nearest integer,
\* a half rounded up (0 when X has no review).
C25_NoRecomputationLost ==
    \A X \in DOMAIN serviceProviders :
        ~Pending("providerId", X) =>
            LET n == Cardinality(ReviewKeysOf(X))
                sum == RatingSum(ReviewKeysOf(X))
                averageRating == serviceProviders[X].averageRating
            IN  IF n = 0 THEN averageRating = 0
                ELSE /\ 2 * averageRating * n <= 2 * sum + n
                     /\ 2 * sum + n < 2 * (averageRating + 1) * n

\* C25 witness: a call that was made while another call for the same
\* provider was pending has returned, no call is pending, and the provider
\* has reviews with different ratings
C25_Witness ==
    /\ last.op = "createServiceProviderReview"
    /\ "overlaps" \in DOMAIN last
    /\ last.overlaps
    /\ jobs = <<>>
    /\ last.input.providerId \in DOMAIN serviceProviders
    /\ \E j, k \in ReviewKeysOf(last.input.providerId) :
          serviceProviderReviews[j].rating # serviceProviderReviews[k].rating

-----------------------------------------------------------------------------
(* Claims on what the update and delete calls keep *)

\* C26: in every state reached by createServiceProvider,
\* createServiceProviderReview, updateServiceProvider and
\* deleteServiceProvider, each stored provider's averageRating is 0 if it
\* has no reviews and the rounded mean of its stored reviews' ratings
\* otherwise.
C26_AverageIsRecomputed ==
    \A X \in DOMAIN serviceProviders :
        IF ReviewKeysOf(X) = {} THEN serviceProviders[X].averageRating = 0
        ELSE serviceProviders[X].averageRating
                = RoundDiv(RatingSum(ReviewKeysOf(X)), Cardinality(ReviewKeysOf(X)))

\* C27: every entity is stored under its own identifier: for each key k of
\* the products, supportRequests and serviceProviders maps the id field of
\* the stored entity is k.
C27_StoredUnderOwnId ==
    /\ \A k \in DOMAIN products : products[k].id = k
    /\ \A k \in DOMAIN supportRequests : supportRequests[k].id = k
    /\ \A k \in DOMAIN serviceProviders : serviceProviders[k].id = k

\* C28: when deleteProduct(id) or deleteServiceProvider(id) returns false,
\* the reviews, supportRequests and serviceProviderReviews maps are as they
\* were before the call.
C28_FailedDeleteChangesNothing ==
    [][last'.op \in {"deleteProduct", "deleteServiceProvider"} /\ ~last'.ret =>
          UNCHANGED <<reviews, supportRequests, serviceProviderReviews>>]_vars

-----------------------------------------------------------------------------
(* Claims on notifications *)

\* C29: every stored Notification's productId is the id of a stored Product:
\* after deleteProduct(P) returns true, no Notification with productId = P
\* is returned by getNotificationsByProduct(P) or getAllUnsentNotifications.
C29_NotificationsNameProducts ==
    /\ \A k \in DOMAIN notifications : notifications[k].productId \in DOMAIN products
    /\ last.op = "deleteProduct" /\ last.ret =>
          /\ GetNotificationsByProduct(last.id) = <<>>
          /\ \A unsent \in {GetAllUnsentNotifications} :
                \A i \in 1..Len(unsent) : unsent[i].productId # last.id

\* the keys of the stored notifications that are not sent
UnsentKeys == {k \in DOMAIN notifications : ~notifications[k].sent}

\* C30: markNotificationAsSent(id) returns true iff a Notification is stored
\* under id; after it returns true that notification has sent = TRUE and
\* sentAt set, and the others are as before; for an id that is not stored it
\* returns false and changes nothing; getAllUnsentNotifications returns
\* exactly the stored notifications with sent false, oldest createdAt first;
\* and a notification that is sent is in no later getAllUnsentNotifications.
C30_MarkedStaysSent ==
    /\ [](/\ last.op = "markNotificationAsSent" =>
                /\ last.ret <=> last.id \in DOMAIN last.before
                /\ DOMAIN notifications = DOMAIN last.before
                /\ \A k \in DOMAIN notifications \ {last.id} :
                      notifications[k] = last.before[k]
                /\ last.ret =>
                      /\ notifications[last.id].sent
                      /\ notifications[last.id].sentAt # NullDate
                      /\ notifications[last.id]
                            = Merge(last.before[last.id],
                                    [sent |-> TRUE, sentAt |-> notifications[last.id].sentAt])
                /\ ~last.ret => notifications = last.before
          /\ \A unsent \in {GetAllUnsentNotifications} :
                /\ IdsOf(unsent) = UnsentKeys
                /\ Len(unsent) = Cardinality(UnsentKeys)
                /\ \A i, j \in 1..Len(unsent) :
                      i < j => CmpTime(unsent[i].createdAt, unsent[j].createdAt) <= 0)
    /\ [][\A k \in DOMAIN notifications :
             notifications[k].sent => k \notin IdsOf(GetAllUnsentNotifications')]_vars

\* C30 witness: a notification has just been marked as sent while two others,
\* created at different times, are not sent
C30_Witness ==
    /\ last.op = "markNotificationAsSent"
    /\ last.ret
    /\ ~last.before[last.id].sent
    /\ \E j, k \in UnsentKeys : notifications[j].createdAt # notifications[k].createdAt

====
